---- MODULE Spec2Model ----
(***************************************************************************)
(* KOSINTER (src/kosinter.py): username variant generation, the per-       *)
(* platform existence classifier check_profile, and the scan loop          *)
(* run_scan / check_username_single.                                       *)
(*                                                                         *)
(* Text is modelled as a sequence of tokens.  A token is a one-character   *)
(* string for usernames, and an atomic fragment of markup (a literal of    *)
(* the source, or a cased spelling of one) for response bodies and URLs.   *)
(* Python's  x in s  is contiguous-subsequence containment and  s.lower()  *)
(* is the token-wise map LowerTok.  Characters TLA+ strings cannot hold    *)
(* are written <U+2019> (right single quote) and <U+00B7> (middle dot).    *)
(* Python's None / a present value are the sequences <<>> / <<x>>.         *)
(***************************************************************************)
EXTENDS Naturals, Sequences, FiniteSets, TLC

VARIABLES pc, base_username, variants, service, username, resp, ret,
          results, all_results, vi, si, writes, anomalies

vars == <<pc, base_username, variants, service, username, resp, ret,
          results, all_results, vi, si, writes, anomalies>>

None == <<>>

Some(x) == <<x>>

(***************************************************************************)
(* Bounds of the model.                                                    *)
(***************************************************************************)
\* longest base handle given to generate_variants in GenSpec
MaxLen == 4

\* longest handle probed in ClassifySpec
MaxHandleLen == 1

\* most markup fragments in one response body in ClassifySpec
MaxFrags == 2

\* longest base handle typed in ScanSpec
MaxScanLen == 4

\* most probes of one scan that get a response other than the plain 404
MaxAnomalies == 1

(***************************************************************************)
(* Strings                                                                 *)
(***************************************************************************)
Separators == {".", "_", "-"}

Alphabet == {"a", "A", ".", "_", "-"}

RECURSIVE StringsUpTo(_, _)
StringsUpTo(alphabet, n) ==
    IF n = 0 THEN {<<>>}
    ELSE LET shorter == StringsUpTo(alphabet, n - 1)
         IN  shorter \cup {Append(s, c) : s \in shorter, c \in alphabet}

Range(s) == {s[i] : i \in DOMAIN s}

\* needle in hay
Contains(hay, needle) ==
    \E i \in 0..Len(hay) :
        /\ i + Len(needle) <= Len(hay)
        /\ SubSeq(hay, i + 1, i + Len(needle)) = needle

\* sep.join(parts)
RECURSIVE Join(_, _)
Join(sep, parts) ==
    IF parts = <<>> THEN <<>>
    ELSE IF Len(parts) = 1 THEN parts[1]
    ELSE parts[1] \o <<sep>> \o Join(sep, Tail(parts))

\* "".join(parts)
RECURSIVE Concat(_)
Concat(parts) ==
    IF parts = <<>> THEN <<>> ELSE parts[1] \o Concat(Tail(parts))

(***************************************************************************)
(* generate_variants                                                       *)
(***************************************************************************)
\* re.search(r"[._-]", s)
re_search(s) == \E i \in 1..Len(s) : s[i] \in Separators

\* re.split(r"[._-]+", s): a run of separators is one split point
RECURSIVE re_split_runs(_)
re_split_runs(s) ==
    IF ~re_search(s) THEN <<s>>
    ELSE LET i == CHOOSE k \in 1..Len(s) :
                     /\ s[k] \in Separators
                     /\ \A j \in 1..(k - 1) : s[j] \notin Separators
             j == CHOOSE k \in i..Len(s) :
                     /\ \A m \in i..k : s[m] \in Separators
                     /\ (k = Len(s) \/ s[k + 1] \notin Separators)
         IN  <<SubSeq(s, 1, i - 1)>> \o re_split_runs(SubSeq(s, j + 1, Len(s)))

\* re.split(r"[._-]", s): every separator character is a split point, and
\* empty parts (leading, trailing, between adjacent separators) are kept
RECURSIVE re_split(_)
re_split(s) ==
    IF ~re_search(s) THEN <<s>>
    ELSE LET i == CHOOSE k \in 1..Len(s) :
                     /\ s[k] \in Separators
                     /\ \A j \in 1..(k - 1) : s[j] \notin Separators
         IN  <<SubSeq(s, 1, i - 1)>> \o re_split(SubSeq(s, i + 1, Len(s)))

\* lines 213-220 with the midpoint split applied from length 2 up
PartsSplitShort(base) ==
    IF re_search(base) THEN re_split(base)
    ELSE IF Len(base) >= 2
         THEN LET mid == Len(base) \div 2
              IN  <<SubSeq(base, 1, mid), SubSeq(base, mid + 1, Len(base))>>
         ELSE <<base>>

\* lines 213-220
Parts(base) ==
    IF re_search(base) THEN re_split(base)
    ELSE IF Len(base) >= 4
         THEN LET mid == Len(base) \div 2
              IN  <<SubSeq(base, 1, mid), SubSeq(base, mid + 1, Len(base))>>
         ELSE <<base>>

\* lines 222-227: [base_username, root, dot, dash, underscore]
Candidates(base) ==
    LET parts == Parts(base)
    IN  <<base, Concat(parts), Join(".", parts), Join("-", parts),
          Join("_", parts)>>

\* the loop of lines 231-234 without the  c not in seen  test
RECURSIVE DedupKeepAll(_, _, _)
DedupKeepAll(candidates, seen, out) ==
    IF candidates = <<>> THEN out
    ELSE LET c == Head(candidates)
         IN  IF c # <<>>
             THEN DedupKeepAll(Tail(candidates), seen \cup {c}, Append(out, c))
             ELSE DedupKeepAll(Tail(candidates), seen, out)

\* the loop of lines 229-234
RECURSIVE Dedup(_, _, _)
Dedup(candidates, seen, out) ==
    IF candidates = <<>> THEN out
    ELSE LET c == Head(candidates)
         IN  IF c # <<>> /\ c \notin seen
             THEN Dedup(Tail(candidates), seen \cup {c}, Append(out, c))
             ELSE Dedup(Tail(candidates), seen, out)

generate_variants(base) == Dedup(Candidates(base), {}, <<>>)

(***************************************************************************)
(* SERVICES and UsernameCheckResult                                        *)
(***************************************************************************)
\* lines 12-23, the keys in definition order
ServiceOrder ==
    <<"instagram", "facebook", "twitter", "github", "github_gist", "gitlab",
      "reddit", "tiktok", "youtube", "snapchat">>

\* lines 12-23: the template up to its {username} placeholder, and after it
SERVICES ==
    [s \in Range(ServiceOrder) |->
        CASE s = "instagram"   -> <<"https://www.instagram.com/", "/">>
          [] s = "facebook"    -> <<"https://www.facebook.com/", "">>
          [] s = "twitter"     -> <<"https://twitter.com/", "">>
          [] s = "github"      -> <<"https://github.com/", "">>
          [] s = "github_gist" -> <<"https://gist.github.com/", "">>
          [] s = "gitlab"      -> <<"https://gitlab.com/", "">>
          [] s = "reddit"      -> <<"https://www.reddit.com/user/", "">>
          [] s = "tiktok"      -> <<"https://www.tiktok.com/@", "">>
          [] s = "youtube"     -> <<"https://www.youtube.com/@", "">>
          [] s = "snapchat"    -> <<"https://www.snapchat.com/add/", "">>]

\* template.format(username=username), line 197
FormatUrl(template, name) ==
    <<template[1]>> \o name \o (IF template[2] = "" THEN <<>> ELSE <<template[2]>>)

\* lines 26-33 and 200-207
UsernameCheckResult(s, name, u, exists, status, error) ==
    [service |-> s, username |-> name, url |-> u, exists |-> exists,
     http_status |-> status, error |-> error]

(***************************************************************************)
(* Text of responses: lower(), and the literals of check_profile           *)
(***************************************************************************)
NotExistCased == "Hmm...this page doesn<U+2019>t exist. Try searching for something else."

NotExistCasedStraight == "Hmm...this page doesn't exist. Try searching for something else."

\* str.lower() on one token
LowerTok(c) ==
    CASE c = "A" -> "a"
      [] c = "Z" -> "z"
      [] c = NotExistCased ->
            "hmm...this page doesn<U+2019>t exist. try searching for something else."
      [] c = NotExistCasedStraight ->
            "hmm...this page doesn't exist. try searching for something else."
      [] c = "Account Suspended" -> "account suspended"
      [] c = "/Account/Suspended" -> "/account/suspended"
      [] c = ") / X" -> ") / x"
      [] c = ") / Twitter" -> ") / twitter"
      [] c = "\"Screen_Name\":\"" -> "\"screen_name\":\""
      [] c = "Sorry, nobody on Reddit goes by that name" ->
            "sorry, nobody on reddit goes by that name"
      [] c = "Page Not Found" -> "page not found"
      [] c = "Couldn't find this account" -> "couldn't find this account"
      [] c = "Account Not Found" -> "account not found"
      [] c = "Y" -> "y"
      [] OTHER -> c

\* str.lower(), lines 37, 98, 99, 148
Lower(s) == IF s = <<>> THEN <<>> ELSE [i \in 1..Len(s) |-> LowerTok(s[i])]

\* lines 84-87
not_exist_texts ==
    << <<"hmm...this page doesn<U+2019>t exist. try searching for something else.">>,
       <<"hmm...this page doesn't exist. try searching for something else.">> >>

\* lines 88-92
not_exist_span ==
    <<"<span class=\"css-1jxf684 r-bcqeeo r-1ttztb7 r-qvutc0 r-poiln3\">",
      NotExistCased, "</span>">>

\* lines 118-124
positive_markers(handle) ==
    << <<"(@">> \o handle \o <<") / x">>,
       <<"(@">> \o handle \o <<") / twitter">>,
       <<"\"screen_name\":\"">> \o handle \o <<"\"">>,
       <<"\"screen_name\": \"">> \o handle \o <<"\"">>,
       <<"@">> \o handle \o <<" <U+00B7>">> >>

\* lines 159-160
reddit_markers ==
    << <<"sorry, nobody on reddit goes by that name">>, <<"page not found">> >>

\* lines 171-174
tiktok_markers ==
    << <<"couldn't find this account">>,
       <<"couldn<U+2019>t find this account">>,
       <<"account not found">>,
       <<"this account could not be found">> >>

\* any(m in text for m in markers)
AnyIn(markers, text) == \E i \in DOMAIN markers : Contains(text, markers[i])

(***************************************************************************)
(* resp.json(), and the Python values it returns                           *)
(***************************************************************************)
JInvalid == [t |-> "ValueError"]

JNull == [t |-> "null"]

JNum(n) == [t |-> "num", n |-> n]

JList == [t |-> "list"]

JEmptyObj == [t |-> "dict", members |-> 0]

JObj(k, v) == [t |-> "dict", members |-> 1, key |-> k, val |-> v]

JsonKeys == {"\"data\"", "\"user\"", "\"id\""}

\* resp.json(): the JSON value of the body, or ValueError (lines 58-61)
RECURSIVE json(_)
json(text) ==
    IF text = <<"null">> THEN JNull
    ELSE IF text = <<"0">> THEN JNum(0)
    ELSE IF text = <<"1">> THEN JNum(1)
    ELSE IF text = <<"[", "]">> THEN JList
    ELSE IF text = <<"{", "}">> THEN JEmptyObj
    ELSE IF /\ Len(text) >= 5
            /\ text[1] = "{"
            /\ text[2] \in JsonKeys
            /\ text[3] = ":"
            /\ text[Len(text)] = "}"
         THEN LET v == json(SubSeq(text, 4, Len(text) - 1))
              IN  IF v.t = "ValueError" THEN JInvalid ELSE JObj(text[2], v)
         ELSE JInvalid

\* hasattr(v, "get"): dict is the only JSON type with .get
HasGet(v) == v.t = "dict"

\* v.get(key, default) for a dict v
DictGet(v, k, default) ==
    IF v.members = 1 /\ v.key = k THEN v.val ELSE default

\* bool(v), line 63
Truthy(v) ==
    CASE v.t = "null" -> FALSE
      [] v.t = "num"  -> v.n # 0
      [] v.t = "list" -> FALSE
      [] v.t = "dict" -> v.members # 0
      [] OTHER -> FALSE

(***************************************************************************)
(* check_profile                                                           *)
(***************************************************************************)
Return(exists, status, error) ==
    [raised |-> FALSE, exists |-> exists, status |-> status, error |-> error]

\* an exception that no except clause of check_profile catches
Raise(e) ==
    [raised |-> TRUE, exists |-> FALSE, status |-> None, error |-> Some(e)]

\* lines 62-63: data.get("data", {}).get("user"), then its truthiness
user_lookup(data) ==
    IF ~HasGet(data) THEN Raise("AttributeError")
    ELSE LET d == DictGet(data, "\"data\"", JEmptyObj)
         IN  IF ~HasGet(d) THEN Raise("AttributeError")
             ELSE LET user_obj == DictGet(d, "\"user\"", JNull)
                  IN  Return(Truthy(user_obj), Some(200), None)

\* lines 55-68
instagram(r) ==
    LET status == r.status_code
    IN  IF status = 200
        THEN LET data == json(r.text)
             IN  IF data.t = "ValueError"
                 THEN Return(FALSE, Some(status), Some("invalid_json"))
                 ELSE user_lookup(data)
        ELSE IF status = 404 THEN Return(FALSE, Some(status), None)
        ELSE Return(FALSE, Some(status), Some("uncertain"))

\* lines 96-131 with steps 2 and 3 exchanged
twitter_suspended_first(uname, r) ==
    LET status     == r.status_code
        html       == r.text
        html_lower == Lower(html)
        final_url  == Lower(r.url)
    IN  IF Contains(html, not_exist_span) THEN Return(FALSE, Some(status), None)
        ELSE IF AnyIn(not_exist_texts, html_lower)
             THEN Return(FALSE, Some(status), None)
        ELSE IF \/ Contains(html_lower, <<"account suspended">>)
                \/ Contains(final_url, <<"/account/suspended">>)
             THEN Return(TRUE, Some(status), None)
        ELSE IF status = 404 THEN Return(FALSE, Some(status), None)
        ELSE IF AnyIn(positive_markers(uname), html_lower)
             THEN Return(TRUE, Some(status), None)
        ELSE Return(FALSE, Some(status), Some("uncertain"))

\* lines 96-131
twitter(uname, r) ==
    LET status     == r.status_code
        html       == r.text
        html_lower == Lower(html)
        final_url  == Lower(r.url)
    IN  IF Contains(html, not_exist_span) THEN Return(FALSE, Some(status), None)
        ELSE IF AnyIn(not_exist_texts, html_lower)
             THEN Return(FALSE, Some(status), None)
        ELSE IF status = 404 THEN Return(FALSE, Some(status), None)
        ELSE IF \/ Contains(html_lower, <<"account suspended">>)
                \/ Contains(final_url, <<"/account/suspended">>)
             THEN Return(TRUE, Some(status), None)
        ELSE IF AnyIn(positive_markers(uname), html_lower)
             THEN Return(TRUE, Some(status), None)
        ELSE Return(FALSE, Some(status), Some("uncertain"))

\* lines 163-167 etc. with every status but 404 taken as found
status_rule_eager(status) ==
    IF status = 404 THEN Return(FALSE, Some(status), None)
    ELSE Return(TRUE, Some(status), None)

\* lines 151-155, 163-167, 177-181, 183-187
status_rule(status) ==
    IF status = 200 THEN Return(TRUE, Some(status), None)
    ELSE IF status = 404 THEN Return(FALSE, Some(status), None)
    ELSE Return(FALSE, Some(status), Some("uncertain"))

\* lines 147-187 with the marker tests made on the text as received
other_services_cased(s, r) ==
    LET status     == r.status_code
        text_lower == r.text
    IN  IF s = "reddit" /\ AnyIn(reddit_markers, text_lower)
        THEN Return(FALSE, Some(status), None)
        ELSE IF s = "tiktok" /\ AnyIn(tiktok_markers, text_lower)
        THEN Return(FALSE, Some(status), None)
        ELSE status_rule(status)

\* lines 147-187
other_services(s, r) ==
    LET status     == r.status_code
        text_lower == Lower(r.text)
    IN  IF s = "facebook" THEN status_rule(status)
        ELSE IF s = "reddit" /\ AnyIn(reddit_markers, text_lower)
        THEN Return(FALSE, Some(status), None)
        ELSE IF s = "tiktok" /\ AnyIn(tiktok_markers, text_lower)
        THEN Return(FALSE, Some(status), None)
        ELSE status_rule(status)

\* lines 36-190 with the except clause of the default branch missing
check_profile_uncaught(s, name, r) ==
    LET uname == Lower(name)
    IN  IF r.kind = "error"
        THEN IF s \in {"instagram", "twitter"}
             THEN Return(FALSE, None, Some(r.err))
             ELSE Raise(r.err)
        ELSE IF s = "instagram" THEN instagram(r)
        ELSE IF s = "twitter" THEN twitter(uname, r)
        ELSE other_services(s, r)

\* lines 36-190.  requests.get raises a RequestException when the probe fails
\* at transport level (r.kind = "error"); each branch catches it.
check_profile(s, name, r) ==
    LET uname == Lower(name)
    IN  IF r.kind = "error" THEN Return(FALSE, None, Some(r.err))
        ELSE IF s = "instagram" THEN instagram(r)
        ELSE IF s = "twitter" THEN twitter(uname, r)
        ELSE other_services(s, r)

(***************************************************************************)
(* The probes' outcomes: what requests.get can give back                   *)
(***************************************************************************)
Statuses == {200, 404, 500}

\* str(e) of the RequestException of a probe that fails at transport level
TransportErrors == {"ConnectionError", "ReadTimeout"}

Http(status, text, u) ==
    [kind |-> "http", status_code |-> status, text |-> text, url |-> u, err |-> ""]

Failure(e) ==
    [kind |-> "error", status_code |-> 0, text |-> <<>>, url |-> <<>>, err |-> e]

\* markup a body can carry: the markers of check_profile as written and in
\* other casings, for the probed handle h and for somebody else's
HtmlFragments(h) ==
    << not_exist_span,
       <<NotExistCased>>,
       <<NotExistCasedStraight>>,
       <<"Account Suspended">>,
       positive_markers(Lower(h))[1],
       <<"(@">> \o h \o <<") / Twitter">>,
       positive_markers(Lower(h))[3],
       positive_markers(Lower(h))[4],
       positive_markers(Lower(h))[5],
       positive_markers(<<"Z">>)[1],
       <<"Sorry, nobody on Reddit goes by that name">>,
       <<"page not found">>,
       <<"Couldn't find this account">>,
       <<"couldn<U+2019>t find this account">>,
       <<"Account Not Found">>,
       <<"this account could not be found">>,
       <<"<html>">> >>

\* the bodies made of at most n of the fragments, in order
RECURSIVE Pick(_, _)
Pick(frags, n) ==
    IF n = 0 \/ frags = <<>> THEN {<<>>}
    ELSE Pick(Tail(frags), n)
           \cup {Head(frags) \o b : b \in Pick(Tail(frags), n - 1)}

JsonBodies ==
    { <<"{", "\"data\"", ":", "{", "\"user\"", ":", "{", "\"id\"", ":", "1", "}", "}", "}">>,
      <<"{", "\"data\"", ":", "{", "\"user\"", ":", "null", "}", "}">>,
      <<"{", "\"data\"", ":", "{", "\"user\"", ":", "{", "}", "}", "}">>,
      <<"{", "\"data\"", ":", "{", "\"user\"", ":", "0", "}", "}">>,
      <<"{", "\"data\"", ":", "{", "\"id\"", ":", "1", "}", "}">>,
      <<"{", "\"data\"", ":", "{", "}", "}">>,
      <<"{", "\"data\"", ":", "null", "}">>,
      <<"{", "\"data\"", ":", "[", "]", "}">>,
      <<"{", "\"user\"", ":", "{", "\"id\"", ":", "1", "}", "}">>,
      <<"{", "}">>,
      <<"[", "]">>,
      <<"null">>,
      <<"{", "\"data\"", ":">> }

\* the final URL of a response: the probed one, or a redirect target
FinalUrls(u) == {u, <<"https://twitter.com", "/Account/Suspended">>}

Responses(h, u) ==
    {Failure(e) : e \in TransportErrors}
      \cup {Http(st, b, f) : st \in Statuses,
                             b \in Pick(HtmlFragments(h), MaxFrags) \cup JsonBodies,
                             f \in FinalUrls(u)}

\* the response of an unremarkable probe
Plain(u) == Http(404, <<>>, u)

\* the bodies a scan draws from: one for each outcome of each branch
ScanBodies(h) ==
    { <<>>,
      not_exist_span,
      <<"Account Suspended">>,
      positive_markers(Lower(h))[1],
      <<"Sorry, nobody on Reddit goes by that name">>,
      <<"this account could not be found">>,
      <<"{", "\"data\"", ":", "{", "\"user\"", ":", "{", "\"id\"", ":", "1", "}", "}", "}">>,
      <<"{", "\"data\"", ":", "{", "\"user\"", ":", "null", "}", "}">>,
      <<"{", "\"data\"", ":", "null", "}">>,
      <<"{", "\"data\"", ":">> }

\* the responses a scan draws from: each transport failure, each body with
\* status 200, and the other statuses with an empty body or a not-exist page
ScanResponses(h, u) ==
    {Failure(e) : e \in TransportErrors}
      \cup {Http(200, b, u) : b \in ScanBodies(h)}
      \cup {Http(st, b, u) : st \in Statuses, b \in {<<>>, not_exist_span}}

(***************************************************************************)
(* State                                                                   *)
(***************************************************************************)
NoResp == Failure("")

NoRet == Return(FALSE, None, None)

EmptyDict == <<>>

\* d[k] = v on a dict d
DictSet(d, k, v) == [x \in DOMAIN d \cup {k} |-> IF x = k THEN v ELSE d[x]]

\* the body of the loop of check_username_single (lines 197-207) for one
\* service: the probe, and the write of its result unless the probe raised
LoopBody(s, name, r) ==
    LET u == FormatUrl(SERVICES[s], name)
        out == check_profile(s, name, r)
    IN  /\ service' = s
        /\ username' = name
        /\ resp' = r
        /\ ret' = out
        /\ IF out.raised
           THEN UNCHANGED <<results, writes>>
           ELSE /\ results' = DictSet(results, s,
                        UsernameCheckResult(s, name, u, out.exists, out.status,
                                            out.error))
                /\ writes' = Append(writes, <<name, s>>)

(***************************************************************************)
(* GenSpec: generate_variants on every base handle of bounded length       *)
(***************************************************************************)
\* run_scan never passes an empty handle on (lines 266-270)
Bases == StringsUpTo(Alphabet, MaxLen) \ {<<>>}

GenInit ==
    /\ pc = "call"
    /\ base_username \in Bases
    /\ variants = <<>>
    /\ service = "" /\ username = <<>> /\ resp = NoResp /\ ret = NoRet
    /\ results = EmptyDict /\ all_results = EmptyDict
    /\ vi = 0 /\ si = 0 /\ writes = <<>> /\ anomalies = 0

Generate ==
    /\ pc = "call"
    /\ variants' = generate_variants(base_username)
    /\ pc' = "returned"
    /\ UNCHANGED <<base_username, service, username, resp, ret, results,
                   all_results, vi, si, writes, anomalies>>

GenNext == Generate

GenSpec == GenInit /\ [][GenNext]_vars

(***************************************************************************)
(* ClassifySpec: one probe of one service, on every response               *)
(***************************************************************************)
Handles == StringsUpTo({"a", "A"}, MaxHandleLen) \ {<<>>}

ClassifyInit ==
    /\ pc = "call"
    /\ service \in Range(ServiceOrder)
    /\ username \in Handles
    /\ resp \in Responses(username, FormatUrl(SERVICES[service], username))
    /\ ret = NoRet
    /\ base_username = <<>> /\ variants = <<>>
    /\ results = EmptyDict /\ all_results = EmptyDict
    /\ vi = 0 /\ si = 0 /\ writes = <<>> /\ anomalies = 0

Probe ==
    /\ pc = "call"
    /\ LoopBody(service, username, resp)
    /\ pc' = IF ret'.raised THEN "crashed" ELSE "returned"
    /\ UNCHANGED <<base_username, variants, all_results, vi, si, anomalies>>

ClassifyNext == Probe

ClassifySpec == ClassifyInit /\ [][ClassifyNext]_vars

(***************************************************************************)
(* ScanSpec: main / run_scan / check_username_single                       *)
(***************************************************************************)
ScanBases == StringsUpTo({"a"}, MaxScanLen) \ {<<>>}

\* what the user can type at the prompt of line 266
ScanInputs ==
    {<<>>, <<" ">>} \cup ScanBases \cup {<<" ">> \o b \o <<" ">> : b \in ScanBases}

\* what the user can type at the prompt of line 283
Answers == {<<"y">>, <<"yes">>, <<" ", "Y">>, <<"n">>, <<"no">>, <<>>, <<"maybe">>}

\* str.strip()
RECURSIVE strip(_)
strip(s) ==
    IF s = <<>> THEN s
    ELSE IF Head(s) = " " THEN strip(Tail(s))
    ELSE IF s[Len(s)] = " " THEN strip(SubSeq(s, 1, Len(s) - 1))
    ELSE s

ScanInit ==
    /\ pc = "input"
    /\ base_username = <<>> /\ variants = <<>>
    /\ service = "" /\ username = <<>> /\ resp = NoResp /\ ret = NoRet
    /\ results = EmptyDict /\ all_results = EmptyDict
    /\ vi = 0 /\ si = 0 /\ writes = <<>> /\ anomalies = 0

\* lines 266-275
ReadBase ==
    /\ pc = "input"
    /\ \E typed \in ScanInputs :
          LET b == strip(typed)
          IN  IF b = <<>>
              THEN /\ pc' = "exit"
                   /\ UNCHANGED <<base_username, variants, vi>>
              ELSE /\ base_username' = b
                   /\ variants' = generate_variants(b)
                   /\ vi' = 1
                   /\ pc' = "variant"
    /\ all_results' = EmptyDict
    /\ UNCHANGED <<service, username, resp, ret, results, si, writes, anomalies>>

\* line 277 -> 278 -> 194: the next variant, and the call of
\* check_username_single on it
NextVariant ==
    /\ pc = "variant"
    /\ vi <= Len(variants)
    /\ results' = EmptyDict
    /\ si' = 1
    /\ pc' = "service"
    /\ UNCHANGED <<base_username, variants, service, username, resp, ret,
                   all_results, vi, writes, anomalies>>

\* lines 196-207: one iteration of the loop over SERVICES
CheckService ==
    /\ pc = "service"
    /\ si <= Len(ServiceOrder)
    /\ LET s == ServiceOrder[si]
           name == variants[vi]
           u == FormatUrl(SERVICES[s], name)
       IN  \E r \in {Plain(u)} \cup
                    (IF anomalies < MaxAnomalies THEN ScanResponses(name, u) ELSE {}) :
              /\ LoopBody(s, name, r)
              /\ anomalies' = IF r = Plain(u) THEN anomalies ELSE anomalies + 1
    /\ IF ret'.raised
       THEN pc' = "crashed" /\ si' = si
       ELSE pc' = "service" /\ si' = si + 1
    /\ UNCHANGED <<base_username, variants, all_results, vi>>

\* line 209 -> 278: check_username_single returns, all_results[v] = results
StoreVariant ==
    /\ pc = "service"
    /\ si > Len(ServiceOrder)
    /\ all_results' = DictSet(all_results, variants[vi], results)
    /\ vi' = vi + 1
    /\ pc' = "variant"
    /\ UNCHANGED <<base_username, variants, service, username, resp, ret,
                   results, si, writes, anomalies>>

\* line 280: the loop over the variants is over, print_results
PrintResults ==
    /\ pc = "variant"
    /\ vi > Len(variants)
    /\ pc' = "again"
    /\ UNCHANGED <<base_username, variants, service, username, resp, ret,
                   results, all_results, vi, si, writes, anomalies>>

\* lines 282-288 and 312-315
AskAgain ==
    /\ pc = "again"
    /\ \E typed \in Answers :
          LET again == Lower(strip(typed))
          IN  IF again \in {<<"y">>, <<"yes">>}
              THEN /\ pc' = "input"
                   /\ base_username' = <<>> /\ variants' = <<>>
                   /\ service' = "" /\ username' = <<>>
                   /\ resp' = NoResp /\ ret' = NoRet
                   /\ results' = EmptyDict /\ all_results' = EmptyDict
                   /\ vi' = 0 /\ si' = 0 /\ writes' = <<>> /\ anomalies' = 0
              ELSE IF again \in {<<"n">>, <<"no">>, <<>>}
              THEN /\ pc' = "exit"
                   /\ UNCHANGED <<base_username, variants, service, username,
                                  resp, ret, results, all_results, vi, si,
                                  writes, anomalies>>
              ELSE UNCHANGED vars

ScanNext ==
    \/ ReadBase
    \/ NextVariant
    \/ CheckService
    \/ StoreVariant
    \/ PrintResults
    \/ AskAgain

ScanSpec == ScanInit /\ [][ScanNext]_vars

(***************************************************************************)
(* The three-valued verdict of a (exists, error) pair: found; not found    *)
(* with no note; not found with a note.                                    *)
(***************************************************************************)
Verdict(exists, error) ==
    IF exists THEN "Exists"
    ELSE IF error = None THEN "NotExists"
    ELSE "Uncertain"

\* the Check Result of the pair (name, s), in the table or on its way there
Stored(name, s) ==
    IF name \in DOMAIN all_results THEN all_results[name][s] ELSE results[s]

(***************************************************************************)
(* Claims on generate_variants (GenSpec)                                   *)
(***************************************************************************)
\* the indexes of the candidates that are non-empty first occurrences
FirstOccurrences(c) ==
    {i \in DOMAIN c : c[i] # <<>> /\ \A j \in 1..(i - 1) : c[j] # c[i]}

\* the k-th smallest element of a set of numbers
Kth(S, k) == CHOOSE i \in S : Cardinality({j \in S : j < i}) = k - 1

\* C8: generate_variants returns a sequence with no empty string and no
\* duplicate (case-sensitive), which lists the candidates base, concatenated,
\* '.'-joined, '-'-joined, '_'-joined in that order, first occurrence winning,
\* and starts with the base handle; a handle with one separator gives base,
\* concatenation, and the two other joins, and a separator-free handle of
\* length 4 gives base and the three joins of its halves.
C8_VariantsOrderedUnique ==
    pc = "returned" =>
        LET c == Candidates(base_username)
            keep == FirstOccurrences(c)
        IN  /\ \A i \in DOMAIN variants : variants[i] # <<>>
            /\ \A i, j \in DOMAIN variants : i # j => variants[i] # variants[j]
            /\ Len(variants) = Cardinality(keep)
            /\ \A k \in DOMAIN variants : variants[k] = c[Kth(keep, k)]
            /\ Len(variants) >= 1
            /\ variants[1] = base_username
            /\ (base_username = <<"a", ".", "A">> =>
                    variants = << <<"a", ".", "A">>, <<"a", "A">>,
                                  <<"a", "-", "A">>, <<"a", "_", "A">> >>)
            /\ (base_username = <<"a", "a", "A", "A">> =>
                    variants = << <<"a", "a", "A", "A">>,
                                  <<"a", "a", ".", "A", "A">>,
                                  <<"a", "a", "-", "A", "A">>,
                                  <<"a", "a", "_", "A", "A">> >>)

\* a handle whose '.'-joined candidate repeats the base and is dropped
C8_Witness ==
    /\ pc = "returned"
    /\ base_username = <<"a", ".", "A">>
    /\ Candidates(base_username)[3] = base_username
    /\ Len(variants) = 4

\* C9: a base handle shorter than 4 with no separator yields exactly one
\* variant, itself.
C9_ShortHandle ==
    (pc = "returned" /\ Len(base_username) < 4 /\ ~re_search(base_username))
        => variants = <<base_username>>

C9_Witness ==
    /\ pc = "returned"
    /\ base_username = <<"a", "A", "a">>
    /\ variants = << <<"a", "A", "a">> >>

\* s with every separator character replaced by sep
Rejoined(s, sep) ==
    [i \in 1..Len(s) |-> IF s[i] \in Separators THEN sep ELSE s[i]]

AdjacentSeparators(s) ==
    \E i \in 1..(Len(s) - 1) : s[i] \in Separators /\ s[i + 1] \in Separators

\* the indexes of the separators of s
SeparatorsAt(s) == {i \in DOMAIN s : s[i] \in Separators}

\* s is  x run y : one run of separators between two non-empty texts
OneInnerRun(s) ==
    /\ SeparatorsAt(s) # {}
    /\ Head(s) \notin Separators
    /\ s[Len(s)] \notin Separators
    /\ \A i, j \in SeparatorsAt(s) : \A k \in i..j : k \in SeparatorsAt(s)

\* C10 as stated: a base handle with separators is split so that a run of
\* adjacent separators is one split point and gives no empty part: a handle
\* that neither starts nor ends with a separator has no empty part, and a
\* handle  x run y  is split into x and y, its '.'-joined candidate being x.y.
C10_RunsAreOneSplitPoint ==
    (/\ pc = "returned"
     /\ re_search(base_username)
     /\ Head(base_username) \notin Separators
     /\ base_username[Len(base_username)] \notin Separators)
        => /\ <<>> \notin Range(Parts(base_username))
           /\ OneInnerRun(base_username) =>
                 LET at == SeparatorsAt(base_username)
                     x == SubSeq(base_username, 1,
                                 (CHOOSE i \in at : \A j \in at : i <= j) - 1)
                     y == SubSeq(base_username,
                                 (CHOOSE i \in at : \A j \in at : j <= i) + 1,
                                 Len(base_username))
                 IN  /\ Parts(base_username) = <<x, y>>
                     /\ Candidates(base_username)[3] = x \o <<".">> \o y

\* C10 amended: a base handle with separators is split at every separator
\* character, so it has one part more than it has separators, adjacent
\* separators give an empty part, and the '.'-, '-' and '_'-joined variants
\* are the base with each separator replaced by the joining character.
C10_EverySeparatorSplits ==
    (pc = "returned" /\ re_search(base_username)) =>
        /\ Len(Parts(base_username))
             = 1 + Cardinality(SeparatorsAt(base_username))
        /\ (AdjacentSeparators(base_username)
                => <<>> \in Range(Parts(base_username)))
        /\ \A sep \in Separators :
              Rejoined(base_username, sep) \in Range(variants)

\* "a..A": parts "a", "", "A", and the variant "a--A"
C10_Witness ==
    /\ pc = "returned"
    /\ base_username = <<"a", ".", ".", "A">>
    /\ Parts(base_username) = << <<"a">>, <<>>, <<"A">> >>
    /\ <<"a", "-", "-", "A">> \in Range(variants)

(***************************************************************************)
(* Claims on check_profile (ClassifySpec)                                  *)
(***************************************************************************)
Returned(exists, status, error) ==
    /\ ~ret.raised
    /\ ret.exists = exists
    /\ ret.status = status
    /\ ret.error = error

\* a "this page doesn't exist" marker in the body, in any casing
NotExistMarker == AnyIn(not_exist_texts, Lower(resp.text))

\* a suspended marker in the body or in the final URL, in any casing
SuspendedMarker ==
    \/ Contains(Lower(resp.text), <<"account suspended">>)
    \/ Contains(Lower(resp.url), <<"/account/suspended">>)

\* an ownership marker embedding the lowercased handle, in any casing
OwnershipMarker == AnyIn(positive_markers(Lower(username)), Lower(resp.text))

\* the not-found body markers the platform defines
NotFoundMarkers(s) ==
    CASE s = "reddit" -> reddit_markers
      [] s = "tiktok" -> tiktok_markers
      [] OTHER -> <<>>

NotFoundMarker(s) == AnyIn(NotFoundMarkers(s), Lower(resp.text))

\* C1: check_profile never raises: whatever the platform, the handle and
\* the probe's outcome, it returns a (verdict, status, note) triple.
C1_NeverRaises == pc # "call" => (~ret.raised /\ pc = "returned")

\* C4: when no positive and no negative marker of the family matches and the
\* status is neither 200 nor 404 (or there is none), the verdict is Uncertain,
\* and the Check Result written for the probe carries the verdict
\* check_profile gave: an Uncertain one stays Uncertain.
C4_Conservatism ==
    pc = "returned" =>
        /\ (/\ (resp.kind = "error" \/ resp.status_code \notin {200, 404})
            /\ (service = "twitter" =>
                    ~NotExistMarker /\ ~SuspendedMarker /\ ~OwnershipMarker)
            /\ ~NotFoundMarker(service))
              => Verdict(ret.exists, ret.error) = "Uncertain"
        /\ service \in DOMAIN results
        /\ Verdict(results[service].exists, results[service].error)
             = Verdict(ret.exists, ret.error)
        /\ (Verdict(ret.exists, ret.error) = "Uncertain"
              => Verdict(results[service].exists, results[service].error)
                   = "Uncertain")

C4_Witness ==
    /\ pc = "returned"
    /\ service = "github"
    /\ resp.kind = "http" /\ resp.status_code = 500
    /\ Verdict(results[service].exists, results[service].error) = "Uncertain"
    /\ results[service].error = Some("uncertain")

\* data.user of a parsed body, null when the body is no object, has no
\* "data" object or that object has no "user"
UserOf(j) ==
    IF ~HasGet(j) THEN JNull
    ELSE LET d == DictGet(j, "\"data\"", JEmptyObj)
         IN  IF ~HasGet(d) THEN JNull ELSE DictGet(d, "\"user\"", JNull)

\* C5: instagram: 200 with a JSON body whose data.user is non-null gives
\* Exists; 200 with data.user null or absent gives NotExists, status 200, no
\* note; 200 with a body that is not JSON gives Uncertain "invalid_json"; 404
\* gives NotExists; any other status gives Uncertain "uncertain".
C5_Instagram ==
    (pc # "call" /\ service = "instagram" /\ resp.kind = "http") =>
        LET st == resp.status_code
            j == json(resp.text)
        IN  IF st = 200
            THEN IF j.t = "ValueError"
                 THEN Returned(FALSE, Some(200), Some("invalid_json"))
                 ELSE IF UserOf(j).t # "null"
                 THEN Returned(TRUE, Some(200), None)
                 ELSE Returned(FALSE, Some(200), None)
            ELSE IF st = 404 THEN Returned(FALSE, Some(404), None)
            ELSE Returned(FALSE, Some(st), Some("uncertain"))

\* C6: twitter: the first of these decides: a not-exist marker gives
\* NotExists whatever the status; 404 gives NotExists; a suspended marker in
\* body or final URL gives Exists; an ownership marker with the lowercased
\* handle gives Exists; otherwise Uncertain with note "uncertain".
C6_TwitterPriority ==
    (pc = "returned" /\ service = "twitter" /\ resp.kind = "http") =>
        LET st == resp.status_code
        IN  /\ NotExistMarker => Returned(FALSE, Some(st), None)
            /\ (~NotExistMarker /\ st = 404) => Returned(FALSE, Some(st), None)
            /\ (~NotExistMarker /\ st # 404 /\ SuspendedMarker)
                  => Returned(TRUE, Some(st), None)
            /\ (~NotExistMarker /\ st # 404 /\ ~SuspendedMarker /\ OwnershipMarker)
                  => Returned(TRUE, Some(st), None)
            /\ (~NotExistMarker /\ st # 404 /\ ~SuspendedMarker /\ ~OwnershipMarker)
                  => Returned(FALSE, Some(st), Some("uncertain"))

\* a 404 that carries a suspended marker and an ownership marker: NotExists
C6_Witness ==
    /\ pc = "returned"
    /\ service = "twitter"
    /\ resp.kind = "http" /\ resp.status_code = 404
    /\ ~NotExistMarker /\ SuspendedMarker /\ OwnershipMarker
    /\ Verdict(ret.exists, ret.error) = "NotExists"

\* C7: every platform but instagram and twitter: a not-found marker of the
\* platform (reddit, tiktok) present in any casing gives NotExists whatever
\* the status; otherwise 200 gives Exists, 404 NotExists, any other status
\* Uncertain "uncertain"; a platform without markers goes by the status.
C7_StatusHeuristic ==
    (/\ pc = "returned"
     /\ service \notin {"instagram", "twitter"}
     /\ resp.kind = "http") =>
        LET st == resp.status_code
        IN  IF NotFoundMarker(service) THEN Returned(FALSE, Some(st), None)
            ELSE IF st = 200 THEN Returned(TRUE, Some(st), None)
            ELSE IF st = 404 THEN Returned(FALSE, Some(st), None)
            ELSE Returned(FALSE, Some(st), Some("uncertain"))

\* reddit answers 200 with its not-found text in title case: NotExists
C7_Witness ==
    /\ pc = "returned"
    /\ service = "reddit"
    /\ resp.kind = "http" /\ resp.status_code = 200
    /\ Contains(resp.text, <<"Sorry, nobody on Reddit goes by that name">>)
    /\ Verdict(ret.exists, ret.error) = "NotExists"

(***************************************************************************)
(* Claims on the scan (ScanSpec)                                           *)
(***************************************************************************)
\* the (variant, platform) keys of the Result Table
TableKeys ==
    UNION {{<<v, s>> : s \in DOMAIN all_results[v]} : v \in DOMAIN all_results}

WriteCount(key) == Cardinality({i \in DOMAIN writes : writes[i] = key})

\* C2: a probe that fails at transport level gives exists=False, no status
\* and the error text as note (verdict Uncertain), on every platform, its
\* Check Result is written, and the scan goes on: a scan never stops on a
\* transport failure.
C2_TransportContained ==
    /\ pc = "crashed" => resp.kind # "error"
    /\ (resp.kind = "error" /\ resp.err # "") =>
          /\ Returned(FALSE, None, Some(resp.err))
          /\ Verdict(ret.exists, ret.error) = "Uncertain"
          /\ writes # <<>>
          /\ writes[Len(writes)] = <<username, service>>
          /\ Stored(username, service).exists = FALSE
          /\ Stored(username, service).http_status = None
          /\ Stored(username, service).error = Some(resp.err)
          /\ pc \in {"service", "variant", "again", "exit"}

\* a completed scan whose first probe failed at transport level
C2_Witness ==
    /\ pc = "again"
    /\ Len(variants) = 4
    /\ Len(writes) = Len(variants) * Len(ServiceOrder)
    /\ all_results[variants[1]]["instagram"].http_status = None
    /\ all_results[variants[1]]["instagram"].error = Some("ReadTimeout")

\* C3: no write is ever to a (variant, platform) key written before, and after a
\* completed scan the Result Table has exactly k * v entries, one for each
\* pair of a generated variant and a registered platform, each written once.
C3_Completeness ==
    /\ \A i \in 1..(Len(writes) - 1) : writes[i] # writes[Len(writes)]
    /\ pc = "again" =>
          /\ Cardinality(TableKeys) = Len(ServiceOrder) * Len(variants)
          /\ TableKeys = {<<variants[i], ServiceOrder[k]>> :
                              i \in DOMAIN variants, k \in DOMAIN ServiceOrder}
          /\ Len(writes) = Len(ServiceOrder) * Len(variants)
          /\ \A key \in TableKeys :
                /\ WriteCount(key) = 1
                /\ all_results[key[1]][key[2]].username = key[1]
                /\ all_results[key[1]][key[2]].service = key[2]

\* a completed scan of four variants, one of them found somewhere
C3_Witness ==
    /\ pc = "again"
    /\ Len(variants) = 4
    /\ Cardinality(TableKeys) = 4 * Len(ServiceOrder)
    /\ \E key \in TableKeys : all_results[key[1]][key[2]].exists

====
